---- MODULE Spec2Model ----
(***************************************************************************)
(* Cash-flow profile engine of portfolio.py: CashFlow, FTECashFlow and     *)
(* combine_flows.  Flows are records, each method is an operator on such a *)
(* record, and each call a client can make is one action whose outcome    *)
(* (a returned value or a raised exception) is left in `ret`.              *)
(*                                                                         *)
(* Numbers.  Python floats are modelled by exact rationals <<n, d>> in     *)
(* lowest terms with d > 0, so that 10/4 is 5/2 and not 2.  The one        *)
(* transcendental step, math.exp in _sigmoid, is evaluated to the fixed    *)
(* precision 1/SigmoidQ (see SigmoidWeight).                               *)
(***************************************************************************)
EXTENDS Integers, Sequences, FiniteSets, TLC

VARIABLES flows, ctorArgs, uuidsDrawn, ret

vars == <<flows, ctorArgs, uuidsDrawn, ret>>

----------------------------------------------------------------------------
(* Bounds of the model *)

MaxFlows == 2
MaxDelay == 2
MaxScaleUp == 4
MaxTotQtrs == 6
MaxPeriodsInYear == 4

----------------------------------------------------------------------------
(* Rational arithmetic *)

Abs(i) == IF i < 0 THEN -i ELSE i

RECURSIVE Gcd(_, _)
Gcd(a, b) == IF b = 0 THEN a ELSE Gcd(b, a % b)

\* n / d with d > 0 and g their greatest common divisor
Lowest(n, d, g) == <<n \div g, d \div g>>

Norm(n, d) == Lowest(IF d < 0 THEN -n ELSE n, Abs(d), Gcd(Abs(n), Abs(d)))

R(i) == <<i, 1>>

RNeg(a) == <<-a[1], a[2]>>

\* a + b over the least common denominator, g the gcd of the denominators
AddOver(a, b, g) == Norm(a[1] * (b[2] \div g) + b[1] * (a[2] \div g), (a[2] \div g) * b[2])

RAdd(a, b) == AddOver(a, b, Gcd(a[2], b[2]))

RSub(a, b) == RAdd(a, RNeg(b))

\* x * y for fractions that have no factor in common crosswise
Cross(x, y) == <<x[1] * y[1], x[2] * y[2]>>

RMul(a, b) == Cross(Norm(a[1], b[2]), Norm(b[1], a[2]))

\* a / b for b # 0 (the callers raise ZeroDivisionError before dividing by 0)
RDiv(a, b) == RMul(a, Norm(b[2], b[1]))

RLe(a, b) == a[1] * b[2] <= b[1] * a[2]

RMin(a, b) == IF RLe(b, a) THEN b ELSE a

RECURSIVE IPow(_, _)
IPow(b, n) == IF n = 0 THEN 1 ELSE b * IPow(b, n - 1)

\* a ** n for n >= 0: a power of a fraction in lowest terms is in lowest terms
RPow(a, n) == <<IPow(a[1], n), IPow(a[2], n)>>

\* floor(a / b) for b > 0, as Python's // does for negative a
FloorDiv(a, b) == IF a >= 0 THEN a \div b ELSE -((-a + b - 1) \div b)

----------------------------------------------------------------------------
(* discount, portfolio.py:11-12 *)

discount(val, discount_rate, period_n) ==
    RDiv(val, RPow(RAdd(R(1), discount_rate), period_n))

----------------------------------------------------------------------------
(* Values of the Python program *)

\* uuid.uuid4(): the n-th value drawn in this process; distinct draws are
\* distinct values.
UUID(n) == <<"UUID", n>>

\* str(uuid)
str(u) == <<"str", u[2]>>

\* The marker of a keyword argument the caller leaves out.
Omitted == <<"omitted">>

\* The defaults `flow_id=uuid.uuid4()` are evaluated once, when the two
\* `def __init__` statements run at import: portfolio.py:81 and :281.
CashFlowDefaultFlowId == UUID(1)
FTECashFlowDefaultFlowId == UUID(2)

\* str.lower() on the identifiers the model draws
Lower(s) == IF s = "Step" THEN "step" ELSE s

\* The names getattr(self, '_' + name) finds on a CashFlow instance: the four
\* profile methods and the other single-underscore methods of the class.
ProfileMethods == {"sigmoid", "linear", "single", "step"}
OtherPrivateMethods ==
    {"discounted", "calculate_qtr", "calculate_dg_qtr", "calculate_vc_qtr", "qtr", "dg_qtr"}

\* 10**6, portfolio.py:167
unit_multiplier == 1000000

\* range(12) of the FTECashFlow quantity and variable-cost series
FTESeriesLen == 12

\* Fixed-point precision of the logistic weight: a multiple of 20, so that
\* .05, .5 and .95 are on the grid.
SigmoidQ == 20 * 5

\* A Python list: the function f over 1..n, as a sequence with its elements computed
List(f) == <<>> \o f

Raised(r) == r.raised # "none"

Return(v) == [raised |-> "none", value |-> v]

Raise(e) == [raised |-> e, value |-> <<>>]

----------------------------------------------------------------------------
(* CashFlow.__init__, portfolio.py:80-101 *)

\* The test the error message describes ("must be at least one")
CashFlowRejects_AtLeastOne(a) == a.function # "step" /\ a.scale_up_qtrs < 1

CashFlowRejects(a) == a.function # "step" /\ a.scale_up_qtrs < 2

CashFlowInit(a) ==
    [ kind            |-> "CashFlow",
      delay_qtrs      |-> a.delay_qtrs,
      digital_gallons |-> a.digital_gallons,
      discount_rate   |-> RDiv(a.discount_rate, R(4)),
      function        |-> a.function,
      id              |-> IF a.flow_id = Omitted THEN CashFlowDefaultFlowId ELSE a.flow_id,
      is_cost         |-> a.is_cost,
      max_amt         |-> a.max_amt,
      name            |-> a.name,
      scale_up_qtrs   |-> a.scale_up_qtrs,
      start_amt       |-> a.start_amt,
      vc_per_dg       |-> a.vc_per_dg,
      tot_qtrs        |-> a.tot_qtrs ]

\* self.periods_index = list(range(tot_qtrs)), as the set of its elements
periods_index(self) == 0 .. (self.tot_qtrs - 1)

----------------------------------------------------------------------------
(* The profile functions, portfolio.py:103-129 *)

CeilDiv(a, b) == (a + b - 1) \div b

\* floor(19^(rem/s)) for 0 <= rem < s: the largest r with r^s <= 19^rem
Root19 ==
    [s \in 1..MaxScaleUp |-> [rem \in 0..(s - 1) |->
        CHOOSE r \in 1..19 : IPow(r, s) <= IPow(19, rem) /\ IPow(r + 1, s) > IPow(19, rem)]]

IRoot19(rem, s) == Root19[s][rem]

\* SigmoidQ / (1 + math.exp(-k * (x - x_naught))), rounded down to an integer, with
\*   k = math.log(1/.95 - 1) / (x_naught - x_end)       (1/.95 - 1 is 1/19)
\* so that -k * (x - x_naught) = ln(19) * a / s for a = s - 2 * (x - delay_qtrs):
\* exp is 19^(a/s) = 19^q * 19^(rem/s), the fractional power taken to the
\* integer below.  With e = n / d the weight is Q*d/(d+n) = Q - Q*n/(d+n);
\* past 19^3 the quotient Q*n/(d+n) is below 1, so d stops growing there.
Logistic(n, d) == SigmoidQ - CeilDiv(SigmoidQ * n, d + n)

ExpWeight(q, F) ==
    IF q >= 0 THEN Logistic(IPow(19, q) * F, 1)
    ELSE Logistic(F, IPow(19, IF -q > 3 THEN 3 ELSE -q))

SigmoidWeight(a, s) == ExpWeight(FloorDiv(a, s), IRoot19(a - FloorDiv(a, s) * s, s))

\* _sigmoid with x_naught at the end of the delay instead of half a ramp later
_sigmoid_MidpointAtDelay(self, x, max_amt, start_amt) ==
    RMin(RMul(RSub(max_amt, start_amt),
              Norm(SigmoidWeight(-2 * (x - self.delay_qtrs), self.scale_up_qtrs), SigmoidQ)),
         RSub(max_amt, start_amt))

_sigmoid(self, x, max_amt, start_amt) ==
    RMin(RMul(RSub(max_amt, start_amt),
              Norm(SigmoidWeight(self.scale_up_qtrs - 2 * (x - self.delay_qtrs), self.scale_up_qtrs),
                   SigmoidQ)),
         RSub(max_amt, start_amt))

\* m * x + b with b = -m * delay_qtrs, portfolio.py:119-120
LineAt(m, x, delay_qtrs) == RAdd(RMul(m, R(x)), RMul(RNeg(m), R(delay_qtrs)))

\* _linear without the cap at max_amt - start_amt
_linear_Uncapped(self, x, max_amt, start_amt) ==
    LineAt(RDiv(RSub(max_amt, start_amt), R(self.scale_up_qtrs)), x, self.delay_qtrs)

_linear(self, x, max_amt, start_amt) ==
    RMin(LineAt(RDiv(RSub(max_amt, start_amt), R(self.scale_up_qtrs)), x, self.delay_qtrs),
         RSub(max_amt, start_amt))

\* _single that returns 0 instead of -start_amt away from the payment period
_single_ZeroElsewhere(self, x, max_amt, start_amt) ==
    IF x = self.delay_qtrs THEN RSub(max_amt, start_amt) ELSE R(0)

_single(self, x, max_amt, start_amt) ==
    IF x = self.delay_qtrs THEN RSub(max_amt, start_amt) ELSE RMul(R(-1), start_amt)

_step(self, x, max_amt, start_amt) == RSub(max_amt, start_amt)

_discounted(self, val, period_n) == discount(val, self.discount_rate, period_n)

\* getattr(self, f'_{name}'): the bound method, or AttributeError
GetMethod(name) ==
    IF name \in ProfileMethods \union OtherPrivateMethods THEN Return(name)
    ELSE Raise("AttributeError")

\* What the call f(quarter_n, max_amt, start_amt) raises: a method that is no
\* profile function takes fewer arguments (TypeError); _sigmoid divides by
\* x_naught - x_end and _linear by scale_up_qtrs (ZeroDivisionError).
CallRaises(self, f) ==
    IF f \notin ProfileMethods THEN "TypeError"
    ELSE IF f \in {"sigmoid", "linear"} /\ self.scale_up_qtrs = 0 THEN "ZeroDivisionError"
    ELSE "none"

Call(self, f, x, max_amt, start_amt) ==
    CASE f = "sigmoid" -> _sigmoid(self, x, max_amt, start_amt)
      [] f = "linear"  -> _linear(self, x, max_amt, start_amt)
      [] f = "single"  -> _single(self, x, max_amt, start_amt)
      [] f = "step"    -> _step(self, x, max_amt, start_amt)

----------------------------------------------------------------------------
(* The series of a CashFlow, portfolio.py:134-230 *)

\* Appended with the exponent counted from the end of the delay
Appended_RelativeToDelay(self, discounted, amt, quarter_n) ==
    IF discounted THEN _discounted(self, amt, quarter_n - self.delay_qtrs) ELSE amt

\* if discounted: amt = self._discounted(amt, quarter_n), portfolio.py:143-144
Appended(self, discounted, amt, quarter_n) ==
    IF discounted THEN _discounted(self, amt, quarter_n) ELSE amt

\* multiplier * (f(quarter_n, max_amt, start_amt) + start_amt), portfolio.py:138-142
Amt(self, f, quarter_n) ==
    RMul(R(IF self.is_cost THEN -1 ELSE 1),
         RAdd(Call(self, f, quarter_n, self.max_amt, self.start_amt), self.start_amt))

\* QtrValue with the delay test off by one (quarter_n < delay_qtrs - 1)
QtrValue_DelayOffByOne(self, f, discounted, quarter_n) ==
    IF quarter_n < self.delay_qtrs - 1 THEN R(0)
    ELSE Appended(self, discounted, Amt(self, f, quarter_n), quarter_n)

\* One element of _calculate_qtr's loop, portfolio.py:137-146
QtrValue(self, f, discounted, quarter_n) ==
    IF quarter_n < self.delay_qtrs THEN R(0)
    ELSE Appended(self, discounted, Amt(self, f, quarter_n), quarter_n)

\* One element of _calculate_dg_qtr's loop, portfolio.py:153-161 (start_gallons = 0)
DgQtrValue(self, f, discounted, quarter_n) ==
    IF quarter_n < self.delay_qtrs THEN R(0)
    ELSE Appended(self, discounted, Call(self, f, quarter_n, self.digital_gallons, R(0)), quarter_n)

\* f is called for the periods at or after the delay only
CallsProfile(self) == \E quarter_n \in periods_index(self) : quarter_n >= self.delay_qtrs

_calculate_qtr(self, f, discounted) ==
    IF CallsProfile(self) /\ CallRaises(self, f) # "none" THEN Raise(CallRaises(self, f))
    ELSE Return(List([i \in 1..Cardinality(periods_index(self)) |-> QtrValue(self, f, discounted, i - 1)]))

_calculate_dg_qtr(self, f, discounted) ==
    IF CallsProfile(self) /\ CallRaises(self, f) # "none" THEN Raise(CallRaises(self, f))
    ELSE Return(List([i \in 1..Cardinality(periods_index(self)) |-> DgQtrValue(self, f, discounted, i - 1)]))

_qtr(self, discounted) ==
    IF Raised(GetMethod(Lower(self.function))) THEN GetMethod(Lower(self.function))
    ELSE _calculate_qtr(self, Lower(self.function), discounted)

_dg_qtr(self, discounted) ==
    IF Raised(GetMethod(Lower(self.function))) THEN GetMethod(Lower(self.function))
    ELSE _calculate_dg_qtr(self, Lower(self.function), discounted)

\* lambda v: -1 * v * unit_multiplier * self.vc_per_dg, portfolio.py:168
dg_to_variable_cost(self, v) == RMul(RMul(R(-1), v), RMul(R(unit_multiplier), self.vc_per_dg))

\* trapz as a rectangle under the right-hand sample
trapz_Rectangle(y0, y1, x0, x1) == RMul(R(x1 - x0), y1)

\* np.trapz([y0, y1], (x0, x1))
trapz(y0, y1, x0, x1) == RDiv(RMul(R(x1 - x0), RAdd(y0, y1)), R(2))

\* The steps of the loop of portfolio.py:174: list(enumerate(zip(...)))[:-1]
VcSteps(self) == 0 .. (Cardinality(periods_index(self)) - 2)

\* dg_cost = [dg_to_variable_cost(v) for v in dg], portfolio.py:169-172
dg_cost(self, dg) == List([i \in 1..Len(dg) |-> dg_to_variable_cost(self, dg[i])])

\* step_vc for every step of the loop, portfolio.py:174-178
step_vcs(self, cost) ==
    List([i \in 1..Cardinality(VcSteps(self)) |-> trapz(cost[i], cost[i + 1], i - 1, i)])

\* The series built from the quantity series dg, or the error raised computing dg
VcFromDg(self, dg, seed) ==
    IF Raised(dg) THEN dg ELSE Return(seed \o step_vcs(self, dg_cost(self, dg.value)))

\* _calculate_vc_qtr that starts from an empty list instead of [0]
_calculate_vc_qtr_NoSeed(self, discounted) == VcFromDg(self, _dg_qtr(self, discounted), <<>>)

_calculate_vc_qtr(self, discounted) == VcFromDg(self, _dg_qtr(self, discounted), <<R(0)>>)

\* CashFlow.to_json, portfolio.py:264-277
CashFlowToJson(self) ==
    [ delay_qtrs      |-> self.delay_qtrs,
      digital_gallons |-> self.digital_gallons,
      discount_rate   |-> self.discount_rate,
      flow_id         |-> str(self.id),
      function        |-> self.function,
      is_cost         |-> self.is_cost,
      name            |-> self.name,
      start_amt       |-> self.start_amt,
      max_amt         |-> self.max_amt,
      scale_up_qtrs   |-> self.scale_up_qtrs,
      tot_qtrs        |-> self.tot_qtrs ]

----------------------------------------------------------------------------
(* FTECashFlow, portfolio.py:280-331, and the schedule its parser builds *)

\* PortfolioFTEParser.__init__, portfolio.py:473-475
fte_per_period(fte_y1, fte_y2, fte_y3, periods_in_year) ==
    [i \in 1..periods_in_year |-> fte_y1] \o [i \in 1..periods_in_year |-> fte_y2]
        \o [i \in 1..periods_in_year |-> fte_y3]

FTECashFlowInit(a) ==
    [ kind            |-> "FTECashFlow",
      name            |-> a.name,
      id              |-> IF a.flow_id = Omitted THEN FTECashFlowDefaultFlowId ELSE a.flow_id,
      discount_rate   |-> a.discount_rate,
      fte_per_period  |-> a.fte_per_period,
      fte_period_cost |-> a.fte_period_cost,
      fte_y1          |-> a.fte_y1,
      fte_y2          |-> a.fte_y2,
      fte_y3          |-> a.fte_y3,
      is_cost         |-> TRUE,
      multiplier      |-> -1 ]

FTEDiscountedQtr(self) ==
    List([i \in 1..Len(self.fte_per_period) |->
        RMul(R(self.multiplier),
             discount(RMul(self.fte_period_cost, self.fte_per_period[i]), self.discount_rate, i - 1))])

FTENonDiscountedQtr(self) ==
    List([i \in 1..Len(self.fte_per_period) |->
        RMul(RMul(R(self.multiplier), self.fte_period_cost), self.fte_per_period[i])])

\* [0 for _ in range(12)]
FTEZeros(self) == List([i \in 1..FTESeriesLen |-> R(0)])

\* FTECashFlow.to_json, portfolio.py:323-331
FTECashFlowToJson(self) ==
    [ name          |-> self.name,
      discount_rate |-> self.discount_rate,
      fte_y1        |-> self.fte_y1,
      fte_y2        |-> self.fte_y2,
      fte_y3        |-> self.fte_y3,
      flow_id       |-> str(self.id) ]

----------------------------------------------------------------------------
(* The six series properties of the CashFlowBase contract *)

SeriesAttributes ==
    { "non_discounted_qtr", "discounted_qtr", "non_discounted_dg_qtr", "discounted_dg_qtr",
      "non_discounted_vc_qtr", "discounted_vc_qtr" }

\* getattr(cf, attribute) for a series property of either class
\* The properties come in pairs that differ in the flag they pass on:
\* discounted_* passes True, non_discounted_* passes False.
IsDiscounted(attribute) == attribute \in {"discounted_qtr", "discounted_dg_qtr", "discounted_vc_qtr"}

GetSeries(cf, attribute) ==
    IF cf.kind = "CashFlow"
    THEN CASE attribute \in {"non_discounted_qtr", "discounted_qtr"}
                -> _qtr(cf, IsDiscounted(attribute))
           [] attribute \in {"non_discounted_dg_qtr", "discounted_dg_qtr"}
                -> _dg_qtr(cf, IsDiscounted(attribute))
           [] attribute \in {"non_discounted_vc_qtr", "discounted_vc_qtr"}
                -> _calculate_vc_qtr(cf, IsDiscounted(attribute))
    ELSE CASE attribute = "non_discounted_qtr"    -> Return(FTENonDiscountedQtr(cf))
           [] attribute = "discounted_qtr"        -> Return(FTEDiscountedQtr(cf))
           [] OTHER                               -> Return(FTEZeros(cf))

\* sigmoid_qtr, linear_qtr, step_qtr, single_qtr and their _dg_ variants,
\* portfolio.py:232-262: the profile is named by the method, not by self.function
ProfileQtr(self, f, dg, discounted) ==
    IF dg THEN _calculate_dg_qtr(self, f, discounted) ELSE _calculate_qtr(self, f, discounted)

----------------------------------------------------------------------------
(* combine_flows, portfolio.py:334-337 *)

RECURSIVE SeqMin(_)
SeqMin(lens) ==
    IF Len(lens) = 1 THEN Head(lens)
    ELSE LET m == SeqMin(Tail(lens)) IN IF Head(lens) < m THEN Head(lens) ELSE m

\* len(list(zip(*values))): the shortest argument decides, and zip() is empty
ZipLen(values) == IF Len(values) = 0 THEN 0 ELSE SeqMin([i \in 1..Len(values) |-> Len(values[i])])

\* sum(column): starts at 0 and adds the elements in order
RECURSIVE sum(_)
sum(column) == IF Len(column) = 0 THEN R(0) ELSE RAdd(sum(SubSeq(column, 1, Len(column) - 1)), column[Len(column)])

\* [sum(x) for x in zip(*values)]
SumColumns(values) ==
    List([p \in 1..ZipLen(values) |-> sum([i \in 1..Len(values) |-> values[i][p]])])

\* values = [getattr(cf, attribute) for cf in cash_flows]: the first getattr
\* that raises ends the call
Combined(got) ==
    IF \E i \in 1..Len(got) : Raised(got[i])
    THEN Raise((got[CHOOSE i \in 1..Len(got) : Raised(got[i]) /\ \A j \in 1..(i - 1) : ~Raised(got[j])]).raised)
    ELSE Return(SumColumns(List([i \in 1..Len(got) |-> got[i].value])))

\* combine_flows that leaves the first flow out of every sum
combine_flows_SkipsFirst(fs, attribute) ==
    Combined(List([i \in 1..(Len(fs) - 1) |-> GetSeries(fs[i + 1], attribute)]))

combine_flows(fs, attribute) ==
    Combined(List([i \in 1..Len(fs) |-> GetSeries(fs[i], attribute)]))

----------------------------------------------------------------------------
(* State.                                                                  *)
(*   flows       the flow objects constructed so far, in order             *)
(*   ctorArgs    the arguments each of them was constructed with           *)
(*   uuidsDrawn  how many values uuid.uuid4() has returned                 *)
(*   ret         the last call: what it was and what it returned or raised *)
(***************************************************************************)

Ret(op, flow, attr, dg, discounted, args, outcome) ==
    [ op |-> op, flow |-> flow, attr |-> attr, dg |-> dg, discounted |-> discounted,
      args |-> args, raised |-> outcome.raised, value |-> outcome.value ]

\* The module is imported: both default flow ids have been drawn.
Init ==
    /\ flows = <<>>
    /\ ctorArgs = <<>>
    /\ uuidsDrawn = 2
    /\ ret = Ret("import", 0, "", FALSE, FALSE, <<>>, Return(<<>>))

\* The identifiers a caller passes as `function`: the four profiles, a
\* capitalised one, the name of another private method, and an unknown name.
FunctionIds == {"sigmoid", "linear", "step", "single", "Step", "qtr", "bogus"}

\* Arguments of one flow studied alone
CashFlowArgs ==
    [ delay_qtrs      : 0..MaxDelay,
      digital_gallons : {R(3)},
      discount_rate   : {R(0), R(2)},
      is_cost         : BOOLEAN,
      max_amt         : {R(4), R(10)},
      scale_up_qtrs   : 0..MaxScaleUp,
      function        : FunctionIds,
      vc_per_dg       : {<<1, 500000>>},
      start_amt       : {R(0), R(6)},
      name            : {"test"},
      flow_id         : {Omitted},
      tot_qtrs        : 0..MaxTotQtrs ]

\* Arguments of the flows of a portfolio
PortfolioCashFlowArgs ==
    [ delay_qtrs      : {1},
      digital_gallons : {R(3)},
      discount_rate   : {R(2)},
      is_cost         : {FALSE},
      max_amt         : {R(10)},
      scale_up_qtrs   : {2},
      function        : {"linear"},
      vc_per_dg       : {<<1, 500000>>},
      start_amt       : {R(0)},
      name            : {"revenue"},
      flow_id         : {Omitted},
      tot_qtrs        : {3, 6} ]

PortfolioFTEArgs ==
    { [ name            |-> "fte",
        discount_rate   |-> <<1, 2>>,
        fte_per_period  |-> fte_per_period(R(1), R(2), R(3), periods_in_year),
        fte_period_cost |-> R(5),
        fte_y1          |-> R(1),
        fte_y2          |-> R(2),
        fte_y3          |-> R(3),
        flow_id         |-> Omitted ] : periods_in_year \in 1..MaxPeriodsInYear }

\* The caller either leaves flow_id out or passes a uuid.uuid4() of its own.
WithFlowId(a, explicit) == IF explicit THEN [a EXCEPT !.flow_id = UUID(uuidsDrawn + 1)] ELSE a

DrawUuid(explicit) ==
    /\ explicit => uuidsDrawn < 2 + MaxFlows
    /\ uuidsDrawn' = IF explicit THEN uuidsDrawn + 1 ELSE uuidsDrawn

\* cf = CashFlow(**a)
NewCashFlow(a0, explicit, limit) ==
    LET a == WithFlowId(a0, explicit)
    IN  /\ Len(flows) < limit
        /\ DrawUuid(explicit)
        /\ IF CashFlowRejects(a)
           THEN /\ ret' = Ret("CashFlow", 0, "", FALSE, FALSE, a, Raise("Exception"))
                /\ UNCHANGED <<flows, ctorArgs>>
           ELSE /\ flows' = Append(flows, CashFlowInit(a))
                /\ ctorArgs' = Append(ctorArgs, a)
                /\ ret' = Ret("CashFlow", Len(flows) + 1, "", FALSE, FALSE, a, Return(<<>>))

\* cf = FTECashFlow(**a)
NewFTECashFlow(a0, explicit, limit) ==
    LET a == WithFlowId(a0, explicit)
    IN  /\ Len(flows) < limit
        /\ DrawUuid(explicit)
        /\ flows' = Append(flows, FTECashFlowInit(a))
        /\ ctorArgs' = Append(ctorArgs, a)
        /\ ret' = Ret("FTECashFlow", Len(flows) + 1, "", FALSE, FALSE, a, Return(<<>>))

\* getattr(flows[i], attribute) for one of the six series properties
GetAttr(i, attribute) ==
    /\ ret' = Ret("getattr", i, attribute, attribute \in {"non_discounted_dg_qtr", "discounted_dg_qtr"},
                  IsDiscounted(attribute),
                  <<>>, GetSeries(flows[i], attribute))
    /\ UNCHANGED <<flows, ctorArgs, uuidsDrawn>>

\* flows[i].<f>_qtr(discounted) or flows[i].<f>_dg_qtr(discounted)
CallProfileQtr(i, f, dg, discounted) ==
    /\ flows[i].kind = "CashFlow"
    /\ ret' = Ret("profile_qtr", i, f, dg, discounted, <<>>, ProfileQtr(flows[i], f, dg, discounted))
    /\ UNCHANGED <<flows, ctorArgs, uuidsDrawn>>

\* flows[i].to_json()
ToJson(i) ==
    /\ ret' = Ret("to_json", i, "", FALSE, FALSE, <<>>,
                  Return(IF flows[i].kind = "CashFlow" THEN CashFlowToJson(flows[i])
                         ELSE FTECashFlowToJson(flows[i])))
    /\ UNCHANGED <<flows, ctorArgs, uuidsDrawn>>

\* combine_flows(flows, attribute) over all the flows of the portfolio
CombineFlows(attribute) ==
    /\ ret' = Ret("combine_flows", 0, attribute, FALSE, FALSE, <<>>, combine_flows(flows, attribute))
    /\ UNCHANGED <<flows, ctorArgs, uuidsDrawn>>

\* The caller takes the outcome of its last call and goes on.
Resume ==
    /\ ret.op \notin {"import", "idle"}
    /\ ret' = Ret("idle", 0, "", FALSE, FALSE, <<>>, Return(<<>>))
    /\ UNCHANGED <<flows, ctorArgs, uuidsDrawn>>

\* The caller is between two calls.
Ready == ret.op \in {"import", "idle"}

\* A portfolio of up to MaxFlows flows of both classes, built and queried in
\* any order.
Next ==
    \/ Ready /\ \E a \in PortfolioCashFlowArgs, explicit \in BOOLEAN : NewCashFlow(a, explicit, MaxFlows)
    \/ Ready /\ \E a \in PortfolioFTEArgs, explicit \in BOOLEAN : NewFTECashFlow(a, explicit, MaxFlows)
    \/ Ready /\ \E i \in 1..Len(flows), attribute \in SeriesAttributes : GetAttr(i, attribute)
    \/ Ready /\ \E i \in 1..Len(flows) : ToJson(i)
    \/ Ready /\ \E attribute \in SeriesAttributes : CombineFlows(attribute)
    \/ Resume

Spec == Init /\ [][Next]_vars

\* One CashFlow, over the whole range of its arguments: the client constructs
\* it (or fails to) and then calls it, in any order.
NextFlow ==
    \/ ret.op = "import" /\ \E a \in CashFlowArgs : NewCashFlow(a, TRUE, 1)
    \/ Ready /\ \E i \in 1..Len(flows), attribute \in SeriesAttributes : GetAttr(i, attribute)
    \/ Ready /\ \E i \in 1..Len(flows), f \in ProfileMethods, dg \in BOOLEAN, discounted \in BOOLEAN :
          CallProfileQtr(i, f, dg, discounted)
    \/ Ready /\ \E i \in 1..Len(flows) : ToJson(i)
    \/ Resume

SpecFlow == Init /\ [][NextFlow]_vars

----------------------------------------------------------------------------
(* Vocabulary of the claims *)

\* The flow the last call was made on
Self == flows[ret.flow]

AmountAttributes == {"non_discounted_qtr", "discounted_qtr"}
QuantityAttributes == {"non_discounted_dg_qtr", "discounted_dg_qtr"}
VariableCostAttributes == {"non_discounted_vc_qtr", "discounted_vc_qtr"}

\* The last call returned a series of a CashFlow, selected by self.function
ReturnedSeries(attributes) ==
    /\ ret.op = "getattr" /\ ret.attr \in attributes /\ ~Raised(ret)
    /\ Self.kind = "CashFlow"

\* The last call returned <f>_qtr(discounted) (dg = FALSE) or <f>_dg_qtr(discounted)
ReturnedProfileQtr == ret.op = "profile_qtr" /\ ~Raised(ret)

\* Element p (a period index, from 0) of the returned series
At(p) == ret.value[p + 1]

----------------------------------------------------------------------------
(* C1 *)

\* C1: in every amount series and every quantity series a CashFlow returns,
\* whatever the profile function, is_cost, start_amt, max_amt and discounting,
\* the element of every period p < delay_qtrs is exactly 0.
C1_ZeroBeforeDelay ==
    (ReturnedSeries(AmountAttributes \union QuantityAttributes) \/ ReturnedProfileQtr)
        => \A p \in 0..(Len(ret.value) - 1) : p < Self.delay_qtrs => At(p) = R(0)

\* A discounted sigmoid flow that is a cost, with a start amount, two periods of
\* delay and a nonzero amount right after them.
C1_Witness ==
    /\ ReturnedSeries({"discounted_qtr"})
    /\ Self.function = "sigmoid" /\ Self.is_cost /\ Self.start_amt # R(0)
    /\ Self.discount_rate # R(0)
    /\ Self.delay_qtrs = 2 /\ Len(ret.value) > 2
    /\ At(0) = R(0) /\ At(1) = R(0) /\ At(2) # R(0)

----------------------------------------------------------------------------
(* C2, C3 *)

\* The series each flow of the portfolio returns for the attribute of the last
\* combine_flows call
Selected(i) == GetSeries(flows[i], ret.attr)

AllSelected == \A i \in 1..Len(flows) : ~Raised(Selected(i))

SameLength(L) == \A i \in 1..Len(flows) : Len(Selected(i).value) = L

\* The sum over flows 1..n of element p of the selected series
RECURSIVE Total(_, _)
Total(n, p) == IF n = 0 THEN R(0) ELSE RAdd(Selected(n).value[p], Total(n - 1, p))

\* C2: combine_flows over a nonempty collection of flows of either class whose
\* selected series all have length L returns a list of length L whose element p
\* is the sum over the flows of their element p.
C2_CombineIsElementwiseSum ==
    (ret.op = "combine_flows" /\ Len(flows) >= 1 /\ AllSelected)
        => LET L == Len(Selected(1).value)
           IN  SameLength(L) =>
                 /\ ~Raised(ret)
                 /\ Len(ret.value) = L
                 /\ \A p \in 1..L : ret.value[p] = Total(Len(flows), p)

\* A CashFlow and an FTECashFlow of six periods each, combined into a series
\* whose last element has a part from both.
C2_Witness ==
    /\ ret.op = "combine_flows" /\ ret.attr = "discounted_qtr" /\ ~Raised(ret)
    /\ Len(flows) = 2
    /\ flows[1].kind = "CashFlow" /\ flows[2].kind = "FTECashFlow"
    /\ SameLength(6)
    /\ Len(ret.value) = 6
    /\ Selected(1).value[6] # R(0) /\ Selected(2).value[6] # R(0)
    /\ ret.value[6] = RAdd(Selected(1).value[6], Selected(2).value[6])

\* C3: when the selected series of the flows differ in length, combine_flows
\* fails with a length-mismatch error and returns nothing (never a list cut to
\* the shortest series).
C3_MismatchIsAnError ==
    (ret.op = "combine_flows" /\ AllSelected
       /\ \E i, j \in 1..Len(flows) : Len(Selected(i).value) # Len(Selected(j).value))
        => Raised(ret)

----------------------------------------------------------------------------
(* C4, C5 *)

\* C4: CashFlow(...) raises exactly when function != 'step' and
\* scale_up_qtrs < 2, and then no flow object comes to exist; with function
\* 'step' it is accepted whatever scale_up_qtrs is.  So no flow that exists has
\* function != 'step' with scale_up_qtrs < 2.
C4_ScaleUpChecked ==
    /\ ret.op = "CashFlow" =>
          /\ Raised(ret) <=> (ret.args.function # "step" /\ ret.args.scale_up_qtrs < 2)
          /\ Raised(ret) => ret.raised = "Exception" /\ flows = <<>>
          /\ ~Raised(ret) => Len(flows) = ret.flow /\ ctorArgs[ret.flow] = ret.args
          /\ ret.args.function = "step" => ~Raised(ret)
    /\ \A i \in 1..Len(flows) :
          flows[i].kind = "CashFlow" => flows[i].function = "step" \/ flows[i].scale_up_qtrs >= 2

\* A linear flow with a scale-up of one period is refused.
C4_Witness ==
    /\ ret.op = "CashFlow" /\ ret.raised = "Exception"
    /\ ret.args.function = "linear" /\ ret.args.scale_up_qtrs = 1
    /\ flows = <<>>

\* C5: a CashFlow whose function is none of sigmoid, linear, step, single (read
\* without regard to case, as the lookup does) never returns a series selected
\* by its function: amount, quantity or variable cost.
C5_UnknownFunctionNeverReturns ==
    (ret.op = "getattr" /\ Self.kind = "CashFlow" /\ Lower(Self.function) \notin ProfileMethods)
        => Raised(ret)

----------------------------------------------------------------------------
(* C6, C7 *)

\* C6: the record to_json returns for a CashFlow holds every constructor
\* argument with the value that was passed in: delay, quantity, discount rate,
\* function, is_cost, name, start and max amount, scale-up, total periods,
\* variable cost per unit and id.
C6_ToJsonRoundTrip ==
    (ret.op = "to_json" /\ Self.kind = "CashFlow")
        => LET a == ctorArgs[ret.flow]
               r == ret.value
           IN  /\ r.delay_qtrs = a.delay_qtrs
               /\ r.digital_gallons = a.digital_gallons
               /\ r.function = a.function
               /\ r.is_cost = a.is_cost
               /\ r.name = a.name
               /\ r.start_amt = a.start_amt
               /\ r.max_amt = a.max_amt
               /\ r.scale_up_qtrs = a.scale_up_qtrs
               /\ r.tot_qtrs = a.tot_qtrs
               /\ r.discount_rate = a.discount_rate
               /\ r.flow_id = a.flow_id
               /\ "vc_per_dg" \in DOMAIN r
               /\ r.vc_per_dg = a.vc_per_dg

\* C7: any two distinct flow objects have different ids, whichever class they
\* are of and whether or not the caller passed flow_id.
C7_IdsAreUnique ==
    \A i, j \in 1..Len(flows) : i # j => flows[i].id # flows[j].id

----------------------------------------------------------------------------
(* C8, C9 *)

\* C8 as claimed: each of the six series of a CashFlow has length tot_qtrs,
\* for every tot_qtrs >= 0.
C8_LengthIsTotQtrs ==
    ReturnedSeries(SeriesAttributes) => Len(ret.value) = Self.tot_qtrs

\* C8 as amended: the amount and quantity series have length tot_qtrs for every
\* tot_qtrs >= 0; the variable-cost series have length tot_qtrs for every
\* tot_qtrs >= 1, and length 1 (the leading 0) for tot_qtrs = 0.
C8_LengthIsTotQtrsFromOne ==
    /\ ReturnedSeries(AmountAttributes \union QuantityAttributes) => Len(ret.value) = Self.tot_qtrs
    /\ ReturnedSeries(VariableCostAttributes) =>
          /\ Self.tot_qtrs >= 1 => Len(ret.value) = Self.tot_qtrs
          /\ Self.tot_qtrs = 0 => ret.value = <<R(0)>>

\* The discounted variable-cost series of a sigmoid flow of four periods, two of
\* them delay, with 3 units at 2 per unit: 0, 0, -1/15, -23/45.
C8_Witness ==
    /\ ReturnedSeries({"discounted_vc_qtr"})
    /\ Self.function = "sigmoid" /\ Self.scale_up_qtrs = 2
    /\ Self.tot_qtrs = 4 /\ Self.delay_qtrs = 2
    /\ Self.discount_rate = <<1, 2>>
    /\ Len(ret.value) = 4
    /\ ret.value = <<R(0), R(0), <<-1, 15>>, <<-23, 45>>>>

\* C9: the quantity and variable-cost series of an FTECashFlow are all zero and
\* as long as its amount series, whatever the length of fte_per_period.
C9_FTESeriesOfOneLength ==
    (ret.op = "getattr" /\ Self.kind = "FTECashFlow"
       /\ ret.attr \in QuantityAttributes \union VariableCostAttributes)
        => /\ ~Raised(ret)
           /\ \A p \in 1..Len(ret.value) : ret.value[p] = R(0)
           /\ Len(ret.value) = Len(FTENonDiscountedQtr(Self))
           /\ Len(ret.value) = Len(FTEDiscountedQtr(Self))

----------------------------------------------------------------------------
(* C10 *)

\* The last call returned the non-discounted linear amount series of a flow
\* that is not a cost, has an even scale-up of at least 2 and runs past it.
LinearKeyPointsCase ==
    /\ \/ ReturnedSeries({"non_discounted_qtr"}) /\ Lower(Self.function) = "linear"
       \/ ReturnedProfileQtr /\ ret.attr = "linear" /\ ~ret.dg /\ ~ret.discounted
    /\ ~Self.is_cost
    /\ Self.scale_up_qtrs >= 2 /\ Self.scale_up_qtrs % 2 = 0
    /\ Self.tot_qtrs > Self.delay_qtrs + Self.scale_up_qtrs

\* start_amt at the delay, half way at the middle of the ramp, max_amt from
\* its end on
LinearKeyPoints ==
    /\ At(Self.delay_qtrs) = Self.start_amt
    /\ At(Self.delay_qtrs + Self.scale_up_qtrs \div 2)
          = RAdd(Self.start_amt, RDiv(RSub(Self.max_amt, Self.start_amt), R(2)))
    /\ \A p \in 0..(Len(ret.value) - 1) :
          p >= Self.delay_qtrs + Self.scale_up_qtrs => At(p) = Self.max_amt

\* C10 as claimed: the key points hold for every start_amt and max_amt.
C10_LinearKeyPointsAnyAmounts == LinearKeyPointsCase => LinearKeyPoints

\* C10 as amended: the key points hold for every start_amt <= max_amt.
C10_LinearKeyPointsRising ==
    (LinearKeyPointsCase /\ RLe(Self.start_amt, Self.max_amt)) => LinearKeyPoints

\* delay 1, scale-up 4, start 0, max 10, six periods: 0, 0, 2.5, 5, 7.5, 10
C10_Witness ==
    /\ LinearKeyPointsCase
    /\ Self.delay_qtrs = 1 /\ Self.scale_up_qtrs = 4 /\ Self.tot_qtrs = 6
    /\ Self.start_amt = R(0) /\ Self.max_amt = R(10)
    /\ ret.value = <<R(0), R(0), <<5, 2>>, R(5), <<15, 2>>, R(10)>>

----------------------------------------------------------------------------
(* C11 *)

\* The last call returned the non-discounted sigmoid amount series of a flow
\* that is not a cost, has an even scale-up of at least 2 and runs past it.
SigmoidKeyPointsCase ==
    /\ \/ ReturnedSeries({"non_discounted_qtr"}) /\ Lower(Self.function) = "sigmoid"
       \/ ReturnedProfileQtr /\ ret.attr = "sigmoid" /\ ~ret.dg /\ ~ret.discounted
    /\ ~Self.is_cost
    /\ Self.scale_up_qtrs >= 2 /\ Self.scale_up_qtrs % 2 = 0
    /\ Self.tot_qtrs > Self.delay_qtrs + Self.scale_up_qtrs

\* 5% of the way from start_amt to max_amt at the delay, half way at the middle
\* of the ramp, 95% of the way at its end (.05 is 1/20)
SigmoidKeyPoints ==
    /\ At(Self.delay_qtrs)
          = RAdd(Self.start_amt, RMul(<<1, 20>>, RSub(Self.max_amt, Self.start_amt)))
    /\ At(Self.delay_qtrs + Self.scale_up_qtrs \div 2)
          = RAdd(Self.start_amt, RDiv(RSub(Self.max_amt, Self.start_amt), R(2)))
    /\ At(Self.delay_qtrs + Self.scale_up_qtrs)
          = RSub(Self.max_amt, RMul(<<1, 20>>, RSub(Self.max_amt, Self.start_amt)))

\* C11 as claimed: the sigmoid series is at 5%, 50% and 95% of the way from
\* start_amt to max_amt at the delay, the middle and the end of the ramp, for
\* every start_amt and max_amt.
C11_SigmoidKeyPointsAnyAmounts == SigmoidKeyPointsCase => SigmoidKeyPoints

\* C11 as amended: the sigmoid series is at 5%, 50% and 95% of the way from
\* start_amt to max_amt at the delay, the middle and the end of the ramp, for
\* every start_amt <= max_amt.
C11_SigmoidKeyPointsRising ==
    (SigmoidKeyPointsCase /\ RLe(Self.start_amt, Self.max_amt)) => SigmoidKeyPoints

\* delay 1, scale-up 4, start 0, max 10, six periods: .5 at 1, 5 at 3, 9.5 at 5
C11_Witness ==
    /\ SigmoidKeyPointsCase
    /\ Self.delay_qtrs = 1 /\ Self.scale_up_qtrs = 4 /\ Self.tot_qtrs = 6
    /\ Self.start_amt = R(0) /\ Self.max_amt = R(10)
    /\ At(0) = R(0) /\ At(1) = <<1, 2>> /\ At(3) = R(5) /\ At(5) = <<19, 2>>

----------------------------------------------------------------------------
(* C12 *)

\* C12: every element of the discounted variable-cost series of a CashFlow is
\* the element of the non-discounted variable-cost series at the same period p,
\* discounted with that period index: nonDiscounted[p] / (1 + discount_rate)^p.
C12_DiscountedVcIsDiscountOfVc ==
    ReturnedSeries({"discounted_vc_qtr"})
        => \A p \in periods_index(Self) :
              At(p) = discount(_calculate_vc_qtr(Self, FALSE).value[p + 1], Self.discount_rate, p)

----------------------------------------------------------------------------
(* C13 *)

\* The flow of the last call with digital_gallons for max_amt and 0 for start_amt
Substituted == [Self EXCEPT !.max_amt = Self.digital_gallons, !.start_amt = R(0)]

\* C13: a quantity series of a CashFlow, for every profile function, is_cost and
\* discounting, is the amount series (same function, same discounting) of the
\* flow that has digital_gallons for max_amt and 0 for start_amt.
C13_QuantityIsAmountOfSubstituted ==
    /\ ReturnedSeries(QuantityAttributes)
          => ret.value = _qtr(Substituted, ret.discounted).value
    /\ (ReturnedProfileQtr /\ ret.dg)
          => ret.value = _calculate_qtr(Substituted, ret.attr, ret.discounted).value

----------------------------------------------------------------------------
(* C14 *)

\* The last call returned the discounted amount series of a flow of either
\* class, or the discounted quantity series of a CashFlow.
ReturnedDiscounted ==
    /\ ret.op = "getattr" /\ ~Raised(ret)
    /\ \/ ret.attr = "discounted_qtr"
       \/ ret.attr = "discounted_dg_qtr" /\ Self.kind = "CashFlow"

\* The series the same flow returns when asked without discounting
NonDiscounted ==
    IF ret.op = "getattr"
    THEN GetSeries(Self, IF ret.attr = "discounted_qtr" THEN "non_discounted_qtr"
                         ELSE "non_discounted_dg_qtr").value
    ELSE ProfileQtr(Self, ret.attr, ret.dg, FALSE).value

\* Every element of the returned series is the element of nd at the same
\* period, divided by (1 + discount_rate)^p for the period index p from 0.
DiscountOf(nd) ==
    /\ Len(ret.value) = Len(nd)
    /\ \A p \in 0..(Len(nd) - 1) : At(p) = discount(nd[p + 1], Self.discount_rate, p)
    /\ Len(nd) > 0 => At(0) = nd[1]

\* C14: the discounted amount and quantity series of a CashFlow and the
\* discounted amount series of an FTECashFlow are the non-discounted series
\* with element p divided by (1 + rate)^p, p the absolute period index (so
\* element 0 is unchanged and the delay does not shift the exponent).
C14_DiscountedByAbsolutePeriod ==
    (ReturnedDiscounted \/ (ReturnedProfileQtr /\ ret.discounted)) => DiscountOf(NonDiscounted)

\* An FTECashFlow of one period a year: -5, -10, -15 discounted at rate 1/2
C14_Witness ==
    /\ ReturnedDiscounted
    /\ Self.kind = "FTECashFlow"
    /\ ret.value = <<R(-5), <<-20, 3>>, <<-20, 3>>>>

----------------------------------------------------------------------------
(* C15 *)

\* dgCost[p] = -unitScale * quantitySeries[p] * variableCostPerUnit, over the
\* non-discounted quantity series of the flow of the last call
DgCost(p) == RMul(RMul(R(-unit_multiplier), _dg_qtr(Self, FALSE).value[p + 1]), Self.vc_per_dg)

\* C15: the non-discounted variable-cost series of a CashFlow starts with 0,
\* and its element n + 1 is (dgCost[n] + dgCost[n + 1]) / 2 for every n from 0
\* to tot_qtrs - 2: the trapezoid over an interval of width 1.
C15_TrapezoidalVariableCost ==
    ReturnedSeries({"non_discounted_vc_qtr"})
        => /\ At(0) = R(0)
           /\ \A n \in 0..(Self.tot_qtrs - 2) :
                 At(n + 1) = RDiv(RAdd(DgCost(n), DgCost(n + 1)), R(2))

\* Quantity 0, 0, 1.5, 3 (linear, delay 1, scale-up 2, 3 gallons) at 2 per
\* gallon: costs 0, 0, -3, -6 and variable cost 0, 0, -1.5, -4.5
C15_Witness ==
    /\ ReturnedSeries({"non_discounted_vc_qtr"})
    /\ Lower(Self.function) = "linear" /\ Self.delay_qtrs = 1 /\ Self.scale_up_qtrs = 2
    /\ ret.value = <<R(0), R(0), <<-3, 2>>, <<-9, 2>>>>

----------------------------------------------------------------------------
(* C16 *)

\* The last call returned the non-discounted single-payment amount series of a
\* flow that is not a cost.
SinglePaymentCase ==
    /\ \/ ReturnedSeries({"non_discounted_qtr"}) /\ Lower(Self.function) = "single"
       \/ ReturnedProfileQtr /\ ret.attr = "single" /\ ~ret.dg /\ ~ret.discounted
    /\ ~Self.is_cost

\* C16: the non-discounted single-payment amount series of a CashFlow that is
\* not a cost is max_amt at period delay_qtrs and 0 at every other period,
\* before and after it, for every start_amt and max_amt.
C16_SinglePayment ==
    SinglePaymentCase
        => /\ Len(ret.value) = Self.tot_qtrs
           /\ \A p \in periods_index(Self) :
                 At(p) = IF p = Self.delay_qtrs THEN Self.max_amt ELSE R(0)

\* start 6, max 10, delay 1, four periods: 0, 10, 0, 0
C16_Witness ==
    /\ SinglePaymentCase
    /\ Self.start_amt = R(6) /\ Self.max_amt = R(10) /\ Self.delay_qtrs = 1
    /\ ret.value = <<R(0), R(10), R(0), R(0)>>

====
